---- MODULE Spec2Model ----
(***************************************************************************)
(* A model of pallet-erc1155: the multi-token ledger (Balances, Issuance,  *)
(* LastTokenId), the imbalances that square up the issuance when they are  *)
(* dropped, and the ERC1155 operations of src/src/lib.rs and               *)
(* src/src/erc1155.rs.                                                     *)
(*                                                                         *)
(* Every operation of the pallet is an operator from a ledger record       *)
(* [balances, issuance, lastTokenId, events] to a record holding the       *)
(* ledger it leaves, its result and the imbalance it returns; the actions  *)
(* apply these operators to the variables.                                 *)
(***************************************************************************)
EXTENDS Integers, Sequences, FiniteSets

VARIABLES
    balances,     \* Balances<T>: (AccountId, TokenId) -> Option<Balance>
    issuance,     \* Issuance<T>: TokenId -> Option<Balance>
    lastTokenId,  \* LastTokenId<T>: Option<TokenId>
    events,       \* the events deposited so far, oldest first
    pending,      \* the imbalances returned to the caller and not yet dropped
    last,         \* the last operation called and its result
    steps         \* the number of operations called so far

vars == <<balances, issuance, lastTokenId, events, pending, last, steps>>

----------------------------------------------------------------------------
(* Bounds of the model. *)

\* T::Balance is an unsigned integer of at least 32 bits; the model gives it
\* the range 0..MaxBalance, so that saturation and failed checked_sub happen.
MaxBalance == 2

\* The number of operations called in one behaviour (dropping an imbalance is
\* not counted: the imbalances held bound it).
MaxSteps == 2

\* The longest list of (id, amount) pairs handed to a batch operation.
MaxBatch == 2

----------------------------------------------------------------------------
(* Types. *)

\* GenesisConfig::default(): initial_token is 0.
initial_token == 0

\* T::AccountId::default() and two other accounts.
DefaultAccount == "Default"
Accounts == {DefaultAccount, "Alice", "Bob"}

\* T::TokenId: the initial token and one more id.
Tokens == {initial_token, initial_token + 1}
Balance == 0..MaxBalance

\* Option<X>: None is the empty sequence, Some(x) the sequence <<x>>.
None == <<>>
Some(x) == <<x>>
unwrap(o) == o[1]
unwrap_or(o, d) == IF o = None THEN d ELSE o[1]

\* Saturating and checked arithmetic of T::Balance.
saturating_add(a, b) == IF a + b > MaxBalance THEN MaxBalance ELSE a + b
saturating_sub(a, b) == IF a < b THEN 0 ELSE a - b
checked_sub(a, b) == IF a < b THEN None ELSE Some(a - b)
Min(a, b) == IF a < b THEN a ELSE b
checked_add(a, b) == IF a + b > MaxBalance THEN None ELSE Some(a + b)

\* The imbalances: an amount of one token that the issuance does not count yet.
PositiveImbalance(amount, id) == [pol |-> "Positive", amount |-> amount, token |-> id]
NegativeImbalance(amount, id) == [pol |-> "Negative", amount |-> amount, token |-> id]

\* Event::TransferSingle(from, to, token_id, value).
TransferSingle(from, to, id, value) ==
    [from |-> from, to |-> to, id |-> id, value |-> value]

\* The ledger held by the variables.
Ledger ==
    [balances |-> balances, issuance |-> issuance,
     lastTokenId |-> lastTokenId, events |-> events]

\* What an operation returns: the ledger it leaves, Ok or the error, and the
\* imbalance handed to the caller (None when there is none).
Ok(st, im) == [st |-> st, res |-> "Ok", im |-> im]
Err(st, e) == [st |-> st, res |-> e, im |-> None]

----------------------------------------------------------------------------
(* Queries. *)

\* ERC1155::balance_of: an absent entry reads as zero.
balance_of(st, owner, id) == unwrap_or(st.balances[<<owner, id>>], 0)

\* The issuance of a token, an absent entry read as zero.
total_issuance(st, id) == unwrap_or(st.issuance[id], 0)

----------------------------------------------------------------------------
(* Drop for PositiveImbalance and NegativeImbalance. *)

\* A faulty drop that squares up the surpluses only: a deficit is forgotten.
drop_forgets_deficit(st, im) ==
    IF im.pol = "Positive"
    THEN [st EXCEPT !.issuance[im.token] =
              Some(saturating_add(unwrap_or(@, 0), im.amount))]
    ELSE st

drop(st, im) ==
    IF im.pol = "Positive"
    THEN [st EXCEPT !.issuance[im.token] =
              Some(saturating_add(unwrap_or(@, 0), im.amount))]
    ELSE [st EXCEPT !.issuance[im.token] =
              Some(saturating_sub(unwrap_or(@, 0), im.amount))]

----------------------------------------------------------------------------
(* ERC1155::safe_transfer_from. *)

\* A faulty transfer that credits the receiver before it checks the sender:
\* a failed transfer leaves the credit behind.
safe_transfer_from_credit_first(st, from, to, id, value) ==
    IF to = DefaultAccount THEN Err(st, "AccountNotFound")
    ELSE IF value = 0 \/ from = to THEN Ok(st, None)
    ELSE
      LET old == st.balances[<<from, id>>]
          balance == IF old = None THEN None ELSE checked_sub(unwrap(old), value)
          inner == [st.balances EXCEPT ![<<to, id>>] =
                        Some(saturating_add(unwrap_or(@, 0), value))]
      IN  IF balance = None THEN Err([st EXCEPT !.balances = inner], "OutOfFunds")
          ELSE Ok([st EXCEPT !.balances = [inner EXCEPT ![<<from, id>>] = balance],
                            !.events = Append(@,
                                TransferSingle(Some(from), Some(to), id, value))],
                  None)

\* A faulty transfer without the early return for a zero value or for
\* from == to.
safe_transfer_from_no_early_return(st, from, to, id, value) ==
    IF to = DefaultAccount THEN Err(st, "AccountNotFound")
    ELSE
      LET old == st.balances[<<from, id>>]
          balance == IF old = None THEN None ELSE checked_sub(unwrap(old), value)
      IN  IF balance = None THEN Err(st, "OutOfFunds")
          ELSE
            LET inner == [st.balances EXCEPT ![<<to, id>>] =
                              Some(saturating_add(unwrap(balance), value))]
                outer == [inner EXCEPT ![<<from, id>>] = balance]
            IN  Ok([st EXCEPT !.balances = outer,
                              !.events = Append(@,
                                  TransferSingle(Some(from), Some(to), id, value))],
                   None)

\* A faulty transfer that also counts the value into the issuance of the token.
safe_transfer_from_issues(st, from, to, id, value) ==
    IF to = DefaultAccount THEN Err(st, "AccountNotFound")
    ELSE IF value = 0 \/ from = to THEN Ok(st, None)
    ELSE
      LET old == st.balances[<<from, id>>]
          balance == IF old = None THEN None ELSE checked_sub(unwrap(old), value)
      IN  IF balance = None THEN Err(st, "OutOfFunds")
          ELSE
            LET inner == [st.balances EXCEPT ![<<to, id>>] =
                              Some(saturating_add(unwrap(balance), value))]
                outer == [inner EXCEPT ![<<from, id>>] = balance]
            IN  Ok([st EXCEPT !.balances = outer,
                              !.issuance[id] =
                                  Some(saturating_add(unwrap_or(@, 0), value)),
                              !.events = Append(@,
                                  TransferSingle(Some(from), Some(to), id, value))],
                   None)

\* A faulty transfer that returns early for a zero value or from == to before
\* it looks at the receiver.
safe_transfer_from_late_ensure(st, from, to, id, value) ==
    IF value = 0 \/ from = to THEN Ok(st, None)
    ELSE IF to = DefaultAccount THEN Err(st, "AccountNotFound")
    ELSE
      LET old == st.balances[<<from, id>>]
          balance == IF old = None THEN None ELSE checked_sub(unwrap(old), value)
      IN  IF balance = None THEN Err(st, "OutOfFunds")
          ELSE
            LET inner == [st.balances EXCEPT ![<<to, id>>] =
                              Some(saturating_add(unwrap(balance), value))]
                outer == [inner EXCEPT ![<<from, id>>] = balance]
            IN  Ok([st EXCEPT !.balances = outer,
                              !.events = Append(@,
                                  TransferSingle(Some(from), Some(to), id, value))],
                   None)

safe_transfer_from(st, from, to, id, value) ==
    IF to = DefaultAccount THEN Err(st, "AccountNotFound")
    ELSE IF value = 0 \/ from = to THEN Ok(st, None)
    ELSE
      LET old == st.balances[<<from, id>>]
          \* balance.map(|b| b.checked_sub(&value)).flatten()
          balance == IF old = None THEN None ELSE checked_sub(unwrap(old), value)
      IN  IF balance = None THEN Err(st, "OutOfFunds")
          ELSE
            \* the inner mutate writes the receiver from `balance`, the
            \* sender's entry after the subtraction; try_mutate then writes
            \* the sender
            LET inner == [st.balances EXCEPT ![<<to, id>>] =
                              Some(saturating_add(unwrap(balance), value))]
                outer == [inner EXCEPT ![<<from, id>>] = balance]
            IN  Ok([st EXCEPT !.balances = outer,
                              !.events = Append(@,
                                  TransferSingle(Some(from), Some(to), id, value))],
                   None)

----------------------------------------------------------------------------
(* ERC1155Mintable::mint and ERC1155Burnable::burn. *)

\* A faulty mint that counts the amount into the issuance itself and still
\* returns the imbalance.
mint_issues(st, account, id, amount) ==
    IF account = DefaultAccount THEN Err(st, "AccountNotFound")
    ELSE IF amount = 0 THEN Ok(st, Some(PositiveImbalance(0, id)))
    ELSE Ok([st EXCEPT !.balances[<<account, id>>] =
                 Some(saturating_add(unwrap_or(@, 0), amount)),
                       !.issuance[id] =
                 Some(saturating_add(unwrap_or(@, 0), amount))],
            Some(PositiveImbalance(amount, id)))

mint(st, account, id, amount) ==
    IF account = DefaultAccount THEN Err(st, "AccountNotFound")
    ELSE IF amount = 0 THEN Ok(st, Some(PositiveImbalance(0, id)))
    ELSE Ok([st EXCEPT !.balances[<<account, id>>] =
                 Some(saturating_add(unwrap_or(@, 0), amount))],
            Some(PositiveImbalance(amount, id)))

burn(st, account, id, amount) ==
    LET old == st.balances[<<account, id>>]
        balance == IF old = None THEN None ELSE checked_sub(unwrap(old), amount)
    IN  IF balance = None THEN Err(st, "OutOfFunds")
        ELSE Ok([st EXCEPT !.balances[<<account, id>>] = balance],
                Some(NegativeImbalance(amount, id)))

----------------------------------------------------------------------------
(* The batch operations of src/src/erc1155.rs: a loop over the (id, amount)   *)
(* pairs that returns at the first error.  The imbalance a mint or a burn     *)
(* returns inside the loop is a temporary, dropped at the end of its          *)
(* statement.                                                                 *)

RECURSIVE safe_batch_transfer_from(_, _, _, _)
safe_batch_transfer_from(st, from, to, id_values) ==
    IF id_values = <<>> THEN Ok(st, None)
    ELSE LET v == Head(id_values)
             r == safe_transfer_from(st, from, to, v[1], v[2])
         IN  IF r.res # "Ok" THEN Err(r.st, r.res)
             ELSE safe_batch_transfer_from(r.st, from, to, Tail(id_values))

RECURSIVE mint_batch(_, _, _)
mint_batch(st, account, id_amounts) ==
    IF id_amounts = <<>> THEN Ok(st, None)
    ELSE LET v == Head(id_amounts)
             r == mint(st, account, v[1], v[2])
         IN  IF r.res # "Ok" THEN Err(r.st, r.res)
             ELSE mint_batch(drop(r.st, unwrap(r.im)), account, Tail(id_amounts))

\* A faulty burn_batch that goes on with the next pair after a failed burn and
\* returns the last error.
RECURSIVE burn_batch_goes_on(_, _, _)
burn_batch_goes_on(st, account, id_amounts) ==
    IF id_amounts = <<>> THEN Ok(st, None)
    ELSE LET v == Head(id_amounts)
             r == burn(st, account, v[1], v[2])
             next == IF r.res # "Ok" THEN r.st ELSE drop(r.st, unwrap(r.im))
             rest == burn_batch_goes_on(next, account, Tail(id_amounts))
         IN  IF r.res # "Ok" /\ rest.res = "Ok" THEN Err(rest.st, r.res) ELSE rest

RECURSIVE burn_batch(_, _, _)
burn_batch(st, account, id_amounts) ==
    IF id_amounts = <<>> THEN Ok(st, None)
    ELSE LET v == Head(id_amounts)
             r == burn(st, account, v[1], v[2])
         IN  IF r.res # "Ok" THEN Err(r.st, r.res)
             ELSE burn_batch(drop(r.st, unwrap(r.im)), account, Tail(id_amounts))

\* The lists of (id, amount) pairs a batch operation is called with: up to
\* MaxBatch pairs, each of a token and an amount of zero, of one or of the
\* greatest Balance.
BatchAmounts == {0, 1, MaxBalance}
BatchInputs == UNION {[1..n -> Tokens \X BatchAmounts] : n \in 0..MaxBatch}

----------------------------------------------------------------------------
(* The Imbalance implementations of PositiveImbalance and NegativeImbalance *)
(* (src/src/imbalance.rs).  An operand that is consumed is handed to        *)
(* mem::forget, so its Drop does not run: the ledger is the one the call    *)
(* started with, and im holds the imbalances the caller is left with.       *)

\* SameOrOther, with the imbalance it carries as the im of the result.
Same(st, x) == [st |-> st, res |-> "Same", im |-> Some(x)]
Other(st, x) == [st |-> st, res |-> "Other", im |-> Some(x)]
SameOrOtherNone(st) == [st |-> st, res |-> "None", im |-> None]

\* The imbalance of the polarity opposite to that of im.
Opposite(im, amount) ==
    IF im.pol = "Positive"
    THEN NegativeImbalance(amount, im.token)
    ELSE PositiveImbalance(amount, im.token)

\* Imbalance::peek.
peek(im) == im.amount

\* A faulty split whose second part is the whole amount.
split_keeps_all(st, im, amount) ==
    LET first == Min(im.amount, amount)
    IN  Ok(st, <<[im EXCEPT !.amount = first], im>>)

\* Imbalance::split.
split(st, im, amount) ==
    LET first == Min(im.amount, amount)
        second == im.amount - first
    IN  Ok(st, <<[im EXCEPT !.amount = first], [im EXCEPT !.amount = second]>>)

\* A faulty merge that does not forget the other imbalance, whose Drop then
\* runs at the end of the call.
merge_drops_other(st, im, other) ==
    Ok(drop(st, other),
       Some([im EXCEPT !.amount = saturating_add(im.amount, other.amount)]))

\* Imbalance::merge.
merge(st, im, other) ==
    Ok(st, Some([im EXCEPT !.amount = saturating_add(im.amount, other.amount)]))

\* Imbalance::subsume: im is the caller's own imbalance, updated in place.
subsume(st, im, other) ==
    Ok(st, Some([im EXCEPT !.amount = saturating_add(im.amount, other.amount)]))

\* A faulty offset that answers Same for either order of the amounts.
offset_always_same(st, im, other) ==
    LET a == im.amount
        b == other.amount
    IN  IF a > b THEN Same(st, [im EXCEPT !.amount = a - b])
        ELSE IF b > a THEN Same(st, [im EXCEPT !.amount = b - a])
        ELSE SameOrOtherNone(st)

\* Imbalance::offset.
offset(st, im, other) ==
    LET a == im.amount
        b == other.amount
    IN  IF a > b THEN Same(st, [im EXCEPT !.amount = a - b])
        ELSE IF b > a THEN Other(st, Opposite(im, b - a))
        ELSE SameOrOtherNone(st)

\* Imbalance::drop_zero: in the Ok branch self goes out of scope, so its Drop
\* runs with an amount of zero; in the Err branch self is handed back.
drop_zero(st, im) ==
    IF im.amount = 0 THEN Ok(drop(st, im), None)
    ELSE [st |-> st, res |-> "Err", im |-> Some(im)]

----------------------------------------------------------------------------
(* The Currency implementation of Erc1155Token (src/src/token.rs).  The     *)
(* parameter token is the token the view is bound to, Self::get().          *)

\* Currency::total_balance and free_balance.
total_balance(st, token, who) == unwrap_or(st.balances[<<who, token>>], 0)

\* A faulty can_slash that wants the value above the balance.
can_slash_strict(st, token, who, value) ==
    [st |-> st, res |-> value > unwrap_or(st.balances[<<who, token>>], 0)]

\* Currency::can_slash: a read of the balance entry; res is the answer.
can_slash(st, token, who, value) ==
    [st |-> st, res |-> value >= unwrap_or(st.balances[<<who, token>>], 0)]

\* A faulty burn that leaves the issuance as it is when it is less than the
\* amount.
token_burn_all_or_nothing(st, token, amount) ==
    IF amount = 0 THEN Ok(st, Some(PositiveImbalance(0, token)))
    ELSE LET sup == unwrap_or(st.issuance[token], 0)
             sub == checked_sub(sup, amount)
         IN  Ok([st EXCEPT !.issuance[token] = Some(unwrap_or(sub, sup))],
                Some(PositiveImbalance(amount, token)))

\* Currency::burn: the issuance less the amount, zero when it is short; the
\* imbalance returned holds the amount asked for.
token_burn(st, token, amount) ==
    IF amount = 0 THEN Ok(st, Some(PositiveImbalance(0, token)))
    ELSE LET sup == unwrap_or(st.issuance[token], 0)
             sub == checked_sub(sup, amount)
         IN  Ok([st EXCEPT !.issuance[token] = Some(unwrap_or(sub, 0))],
                Some(PositiveImbalance(amount, token)))

\* Currency::issue: the issuance plus the amount, the greatest Balance when
\* the sum overflows; the imbalance returned holds the amount asked for.
token_issue(st, token, amount) ==
    IF amount = 0 THEN Ok(st, Some(NegativeImbalance(0, token)))
    ELSE LET sup == unwrap_or(st.issuance[token], 0)
             sum == checked_add(sup, amount)
         IN  Ok([st EXCEPT !.issuance[token] = Some(unwrap_or(sum, MaxBalance))],
                Some(NegativeImbalance(amount, token)))

\* Currency::transfer: the body of safe_transfer_from without its look at the
\* receiver.
token_transfer(st, token, from, to, value) ==
    IF value = 0 \/ from = to THEN Ok(st, None)
    ELSE
      LET old == st.balances[<<from, token>>]
          balance == IF old = None THEN None ELSE checked_sub(unwrap(old), value)
      IN  IF balance = None THEN Err(st, "OutOfFunds")
          ELSE
            LET inner == [st.balances EXCEPT ![<<to, token>>] =
                              Some(saturating_add(unwrap(balance), value))]
                outer == [inner EXCEPT ![<<from, token>>] = balance]
            IN  Ok([st EXCEPT !.balances = outer,
                              !.events = Append(@,
                                  TransferSingle(Some(from), Some(to), token, value))],
                   None)

\* Currency::slash: the closure ret deposits the event and builds the pair
\* (NegativeImbalance(slashed), remaining); remaining is computed from the
\* balance after it was set to zero.
slash(st, token, who, value) ==
    LET ret(s, slashed, remaining) ==
            [st |-> [s EXCEPT !.events = Append(@,
                         TransferSingle(Some(who), None, token, slashed))],
             res |-> "Ok",
             im |-> Some(NegativeImbalance(slashed, token)),
             remaining |-> remaining]
    IN  IF value = 0 THEN ret(st, 0, 0)
        ELSE IF total_balance(st, token, who) = 0 THEN ret(st, 0, value)
        ELSE LET balance == unwrap(st.balances[<<who, token>>])
             IN  IF balance < value
                 THEN ret([st EXCEPT !.balances[<<who, token>>] = Some(0)],
                          balance, value - 0)
                 ELSE ret([st EXCEPT !.balances[<<who, token>>] = Some(balance - value)],
                          value, 0)

\* A faulty deposit_into_existing that takes an absent entry for zero.
deposit_into_existing_creates(st, token, who, value) ==
    IF value = 0 THEN Ok(st, Some(PositiveImbalance(0, token)))
    ELSE Ok([st EXCEPT !.balances[<<who, token>>] =
                 Some(saturating_add(unwrap_or(@, 0), value))],
            Some(PositiveImbalance(value, token)))

\* Currency::deposit_into_existing.
deposit_into_existing(st, token, who, value) ==
    IF value = 0 THEN Ok(st, Some(PositiveImbalance(0, token)))
    ELSE LET balance == st.balances[<<who, token>>]
         IN  IF balance = None THEN Err(st, "AccountNotFound")
             ELSE Ok([st EXCEPT !.balances[<<who, token>>] =
                          Some(saturating_add(unwrap(balance), value))],
                     Some(PositiveImbalance(value, token)))

\* Currency::deposit_creating.
deposit_creating(st, token, who, value) ==
    IF value = 0 THEN Ok(st, Some(PositiveImbalance(0, token)))
    ELSE Ok([st EXCEPT !.balances[<<who, token>>] =
                 Some(saturating_add(unwrap_or(@, 0), value))],
            Some(PositiveImbalance(value, token)))

\* Currency::withdraw.
withdraw(st, token, who, value) ==
    LET old == st.balances[<<who, token>>]
        balance == IF old = None THEN None ELSE checked_sub(unwrap(old), value)
    IN  IF balance = None THEN Err(st, "OutOfFunds")
        ELSE Ok([st EXCEPT !.balances[<<who, token>>] = balance],
                Some(NegativeImbalance(value, token)))

\* Currency::make_free_balance_be: the imbalance is Negative when the value is
\* above the balance and Positive otherwise.
make_free_balance_be(st, token, who, value) ==
    LET bal == unwrap_or(st.balances[<<who, token>>], 0)
        im == IF value > bal
              THEN NegativeImbalance(value - bal, token)
              ELSE PositiveImbalance(bal - value, token)
    IN  Ok([st EXCEPT !.balances[<<who, token>>] = Some(value)], Some(im))

----------------------------------------------------------------------------
(* The token ids (src/src/lib.rs, impl Pallet). *)

\* The greatest TokenId: the model's token ids are the initial one and the
\* next.
MaxTokenId == initial_token + 1

\* Pallet::last_token.
last_token(st) == unwrap(st.lastTokenId)

\* Pallet::token_inc: the counter is put back with a saturating add of one;
\* token is the id it held.
token_inc(st) ==
    LET token == last_token(st)
    IN  [st |-> [st EXCEPT !.lastTokenId = Some(Min(token + 1, MaxTokenId))],
         token |-> token]

\* Pallet::create_token: token is the id it returns.
create_token(st, account, initial_supply) ==
    LET inc == token_inc(st)
        token == inc.token
    IN  [st |-> [inc.st EXCEPT !.balances[<<account, token>>] = Some(initial_supply),
                               !.issuance[token] = Some(initial_supply)],
         res |-> "Ok", im |-> None, token |-> token]

----------------------------------------------------------------------------
(* The state machine. *)

\* GenesisBuild::build: LastTokenId and a zero issuance for the initial token.
Init ==
    /\ balances = [k \in Accounts \X Tokens |-> None]
    /\ issuance = [t \in Tokens |-> IF t = initial_token THEN Some(0) ELSE None]
    /\ lastTokenId = Some(initial_token)
    /\ events = <<>>
    /\ pending = <<>>
    /\ last = [op |-> "genesis", res |-> "Ok"]
    /\ steps = 0

\* The variables after an operation named op returned r.
Returns(op, r) ==
    /\ balances' = r.st.balances
    /\ issuance' = r.st.issuance
    /\ lastTokenId' = r.st.lastTokenId
    /\ events' = r.st.events
    /\ pending' = pending \o r.im
    /\ last' = [op |-> op, res |-> r.res]
    /\ steps' = steps + 1

SafeTransferFrom ==
    /\ steps < MaxSteps
    /\ \E from \in Accounts, to \in Accounts, id \in Tokens, value \in Balance :
        Returns("safe_transfer_from", safe_transfer_from(Ledger, from, to, id, value))

Mint ==
    /\ steps < MaxSteps
    /\ \E account \in Accounts, id \in Tokens, amount \in Balance :
        Returns("mint", mint(Ledger, account, id, amount))

Burn ==
    /\ steps < MaxSteps
    /\ \E account \in Accounts, id \in Tokens, amount \in Balance :
        Returns("burn", burn(Ledger, account, id, amount))

\* The caller lets go of one of the imbalances it holds.
Drop ==
    \E i \in 1..Len(pending) :
        LET st == drop(Ledger, pending[i])
        IN  /\ balances' = st.balances
            /\ issuance' = st.issuance
            /\ lastTokenId' = st.lastTokenId
            /\ events' = st.events
            /\ pending' = SubSeq(pending, 1, i - 1) \o SubSeq(pending, i + 1, Len(pending))
            /\ last' = [op |-> "drop", res |-> "Ok"]
            /\ UNCHANGED steps

\* The behaviours with a batch operation end with it: the operations before
\* it set up the ledger it is called on.
BatchLast == steps = MaxSteps - 1

SafeBatchTransferFrom ==
    /\ BatchLast
    /\ \E from \in Accounts, to \in Accounts, id_values \in BatchInputs :
        Returns("safe_batch_transfer_from",
                safe_batch_transfer_from(Ledger, from, to, id_values))

MintBatch ==
    /\ BatchLast
    /\ \E account \in Accounts, id_amounts \in BatchInputs :
        Returns("mint_batch", mint_batch(Ledger, account, id_amounts))

BurnBatch ==
    /\ BatchLast
    /\ \E account \in Accounts, id_amounts \in BatchInputs :
        Returns("burn_batch", burn_batch(Ledger, account, id_amounts))

\* The single operations, called in any order.
Next ==
    \/ SafeTransferFrom
    \/ Mint
    \/ Burn
    \/ Drop

Spec == Init /\ [][Next]_vars

\* The batch operations, called on the ledgers that mints and drops set up.
NextBatch ==
    \/ Mint
    \/ Drop
    \/ SafeBatchTransferFrom
    \/ MintBatch
    \/ BurnBatch

SpecBatch == Init /\ [][NextBatch]_vars

\* The calls of the Currency implementation, on a view bound to any token.
TokenBurn ==
    /\ steps < MaxSteps
    /\ \E token \in Tokens, amount \in Balance :
        Returns("token_burn", token_burn(Ledger, token, amount))

TokenIssue ==
    /\ steps < MaxSteps
    /\ \E token \in Tokens, amount \in Balance :
        Returns("token_issue", token_issue(Ledger, token, amount))

TokenTransfer ==
    /\ steps < MaxSteps
    /\ \E token \in Tokens, from \in Accounts, to \in Accounts, value \in Balance :
        Returns("token_transfer", token_transfer(Ledger, token, from, to, value))

Slash ==
    /\ steps < MaxSteps
    /\ \E token \in Tokens, who \in Accounts, value \in Balance :
        Returns("slash", slash(Ledger, token, who, value))

DepositIntoExisting ==
    /\ steps < MaxSteps
    /\ \E token \in Tokens, who \in Accounts, value \in Balance :
        Returns("deposit_into_existing", deposit_into_existing(Ledger, token, who, value))

DepositCreating ==
    /\ steps < MaxSteps
    /\ \E token \in Tokens, who \in Accounts, value \in Balance :
        Returns("deposit_creating", deposit_creating(Ledger, token, who, value))

Withdraw ==
    /\ steps < MaxSteps
    /\ \E token \in Tokens, who \in Accounts, value \in Balance :
        Returns("withdraw", withdraw(Ledger, token, who, value))

MakeFreeBalanceBe ==
    /\ steps < MaxSteps
    /\ \E token \in Tokens, who \in Accounts, value \in Balance :
        Returns("make_free_balance_be", make_free_balance_be(Ledger, token, who, value))

\* The Currency calls that move, slash and set balances, on the balances that
\* deposits create.
NextCurrency ==
    \/ DepositCreating
    \/ TokenTransfer
    \/ Slash
    \/ MakeFreeBalanceBe
    \/ Drop

SpecCurrency == Init /\ [][NextCurrency]_vars

\* The answer of can_slash is recorded by name.
CanSlash ==
    /\ steps < MaxSteps
    /\ \E token \in Tokens, who \in Accounts, value \in Balance :
        LET r == can_slash(Ledger, token, who, value)
        IN  Returns("can_slash",
                    [st |-> r.st, res |-> IF r.res THEN "true" ELSE "false",
                     im |-> None])

\* The Currency calls that deposit and withdraw, and the question whether a
\* balance can be slashed.
NextDeposit ==
    \/ DepositIntoExisting
    \/ DepositCreating
    \/ Withdraw
    \/ CanSlash
    \/ Drop

SpecDeposit == Init /\ [][NextDeposit]_vars

\* The Currency calls on the issuance, after mints and drops.
NextSupply ==
    \/ Mint
    \/ TokenBurn
    \/ TokenIssue
    \/ Drop

SpecSupply == Init /\ [][NextSupply]_vars

\* The imbalances the caller holds without the ones at the indices in S.
RECURSIVE Without(_, _)
Without(held, S) ==
    IF held = <<>> THEN <<>>
    ELSE LET rest == Without(Tail(held), {i - 1 : i \in S \ {1}})
         IN  IF 1 \in S THEN rest ELSE <<Head(held)>> \o rest

\* The variables after a combinator named op consumed the imbalances at the
\* indices in S and returned r.
Combines(op, S, r) ==
    /\ balances' = r.st.balances
    /\ issuance' = r.st.issuance
    /\ lastTokenId' = r.st.lastTokenId
    /\ events' = r.st.events
    /\ pending' = Without(pending, S) \o r.im
    /\ last' = [op |-> op, res |-> r.res]

\* Two imbalances the type system lets a combinator take: of one token, and
\* of the same polarity for merge and subsume, of opposite ones for offset.
SamePolarity(i, j) ==
    /\ i # j
    /\ pending[i].token = pending[j].token
    /\ pending[i].pol = pending[j].pol

OppositePolarity(i, j) ==
    /\ pending[i].token = pending[j].token
    /\ pending[i].pol # pending[j].pol

Split ==
    /\ steps < MaxSteps
    /\ steps' = steps + 1
    /\ \E i \in 1..Len(pending), amount \in Balance :
        Combines("split", {i}, split(Ledger, pending[i], amount))

Merge ==
    /\ UNCHANGED steps
    /\ \E i \in 1..Len(pending), j \in 1..Len(pending) :
        /\ SamePolarity(i, j)
        /\ Combines("merge", {i, j}, merge(Ledger, pending[i], pending[j]))

Subsume ==
    /\ UNCHANGED steps
    /\ \E i \in 1..Len(pending), j \in 1..Len(pending) :
        /\ SamePolarity(i, j)
        /\ Combines("subsume", {i, j}, subsume(Ledger, pending[i], pending[j]))

Offset ==
    /\ UNCHANGED steps
    /\ \E i \in 1..Len(pending), j \in 1..Len(pending) :
        /\ OppositePolarity(i, j)
        /\ Combines("offset", {i, j}, offset(Ledger, pending[i], pending[j]))

DropZero ==
    /\ UNCHANGED steps
    /\ \E i \in 1..Len(pending) :
        Combines("drop_zero", {i}, drop_zero(Ledger, pending[i]))

\* The imbalances that mint and issue return, combined and dropped in any
\* order.
NextImbalance ==
    \/ Mint
    \/ TokenIssue
    \/ Split
    \/ Merge
    \/ Subsume
    \/ Offset
    \/ DropZero
    \/ Drop

SpecImbalance == Init /\ [][NextImbalance]_vars

CreateToken ==
    /\ steps < MaxSteps
    /\ \E account \in Accounts, initial_supply \in Balance :
        Returns("create_token", create_token(Ledger, account, initial_supply))

\* Tokens are created among mints and drops.
NextToken ==
    \/ CreateToken
    \/ Mint
    \/ Drop

SpecToken == Init /\ [][NextToken]_vars

----------------------------------------------------------------------------
(* The properties. *)

\* The sum of the balances the accounts of S hold of a token.
RECURSIVE SumBalances(_, _, _)
SumBalances(st, S, id) ==
    IF S = {} THEN 0
    ELSE LET a == CHOOSE x \in S : TRUE
         IN  balance_of(st, a, id) + SumBalances(st, S \ {a}, id)

\* The entries of Balances other than those named in K are the same in st and in
\* the ledger of the variables.
OtherBalancesKept(st, K) ==
    \A k \in (Accounts \X Tokens) \ K : st.balances[k] = balances[k]

\* C1: once every returned imbalance is dropped, the issuance of every token
\* is the sum of the balances of that token.
C1_Conservation ==
    pending = <<>> =>
        \A t \in Tokens : total_issuance(Ledger, t) = SumBalances(Ledger, Accounts, t)

\* C2: a successful transfer that is no no-op takes the amount from the
\* sender's balance and adds it, saturating, to the receiver's own balance.
C2_TransferMovesAmount ==
    \A from \in Accounts, to \in Accounts, id \in Tokens, value \in Balance :
        (/\ to # DefaultAccount
         /\ from # to
         /\ value > 0
         /\ balance_of(Ledger, from, id) >= value)
        => LET r == safe_transfer_from(Ledger, from, to, id, value)
           IN  /\ r.res = "Ok"
               /\ balance_of(r.st, from, id) = balance_of(Ledger, from, id) - value
               /\ balance_of(r.st, to, id) =
                      Min(balance_of(Ledger, to, id) + value, MaxBalance)

\* C3: a transfer of more than the sender holds (an absent entry holds
\* nothing) returns OutOfFunds and changes no balance, no issuance and no event.
C3_FailedTransferAtomic ==
    \A a \in Accounts, b \in Accounts, t \in Tokens, v \in Balance :
        (/\ a # b
         /\ v > 0
         /\ b # DefaultAccount
         /\ balance_of(Ledger, a, t) < v)
        => LET r == safe_transfer_from(Ledger, a, b, t, v)
           IN  /\ r.res = "OutOfFunds"
               /\ r.st.balances = balances
               /\ r.st.issuance = issuance
               /\ r.st.events = events

\* A transfer has failed with OutOfFunds.
C3_Witness ==
    /\ last.op = "safe_transfer_from"
    /\ last.res = "OutOfFunds"

\* C4: a transfer to oneself and a transfer of zero change no balance and no
\* issuance and deposit no event, whatever the sender holds.
C4_TransferNoOp ==
    \A a \in Accounts, b \in Accounts, t \in Tokens, v \in Balance :
        LET self == safe_transfer_from(Ledger, a, a, t, v)
            zero == safe_transfer_from(Ledger, a, b, t, 0)
        IN  /\ self.st.balances = balances
            /\ self.st.issuance = issuance
            /\ self.st.events = events
            /\ zero.st.balances = balances
            /\ zero.st.issuance = issuance
            /\ zero.st.events = events

\* A transfer has returned Ok on a ledger where some account holds a balance,
\* and no event was ever deposited: it was a no-op.
C4_Witness ==
    /\ last.op = "safe_transfer_from"
    /\ last.res = "Ok"
    /\ events = <<>>
    /\ \E k \in Accounts \X Tokens : unwrap_or(balances[k], 0) > 0

\* C5: a transfer, successful or not, changes no issuance, not LastTokenId, and
\* no balance but those of the sender and the receiver for the token.
C5_TransferFrame ==
    \A from \in Accounts, to \in Accounts, id \in Tokens, value \in Balance :
        LET r == safe_transfer_from(Ledger, from, to, id, value)
        IN  /\ r.st.issuance = issuance
            /\ r.st.lastTokenId = lastTokenId
            /\ OtherBalancesKept(r.st, {<<from, id>>, <<to, id>>})

\* A transfer has moved a balance while an imbalance was waiting to be dropped.
C5_Witness ==
    /\ last.op = "safe_transfer_from"
    /\ last.res = "Ok"
    /\ events # <<>>
    /\ pending # <<>>

\* C6: a mint of a positive amount to a non-default account adds the amount,
\* saturating, to the balance of the account, changes no other balance and no
\* issuance, and returns PositiveImbalance(amount); dropping it adds the amount,
\* saturating, to the issuance of the token alone.  A mint of zero changes no
\* balance and no issuance value, also after its imbalance is dropped.
C6_Mint ==
    \A account \in Accounts \ {DefaultAccount}, id \in Tokens, amount \in Balance :
        LET r == mint(Ledger, account, id, amount)
            dropped == drop(r.st, unwrap(r.im))
        IN  /\ r.res = "Ok"
            /\ r.im = Some(PositiveImbalance(amount, id))
            /\ r.st.issuance = issuance
            /\ r.st.events = events
            /\ OtherBalancesKept(r.st, {<<account, id>>})
            /\ dropped.balances = r.st.balances
            /\ \A t \in Tokens \ {id} : dropped.issuance[t] = issuance[t]
            /\ amount > 0 =>
                 /\ balance_of(r.st, account, id) =
                        Min(balance_of(Ledger, account, id) + amount, MaxBalance)
                 /\ total_issuance(dropped, id) =
                        Min(total_issuance(Ledger, id) + amount, MaxBalance)
            /\ amount = 0 =>
                 /\ r.st.balances = balances
                 /\ total_issuance(dropped, id) = total_issuance(Ledger, id)

\* One operation was called, it returned an imbalance that is dropped by now,
\* and an account holds what the issuance counts: a mint and its drop.
C6_Witness ==
    /\ last.op = "drop"
    /\ steps = 1
    /\ pending = <<>>
    /\ \E a \in Accounts, t \in Tokens :
           /\ balance_of(Ledger, a, t) > 0
           /\ total_issuance(Ledger, t) = balance_of(Ledger, a, t)

\* C7: a transfer to the default account and a mint to the default account
\* return AccountNotFound for every amount and every sender, and change
\* nothing.
C7_DefaultAccountRefused ==
    \A from \in Accounts, id \in Tokens, value \in Balance :
        LET t == safe_transfer_from(Ledger, from, DefaultAccount, id, value)
            m == mint(Ledger, DefaultAccount, id, value)
        IN  /\ t.res = "AccountNotFound"
            /\ t.st = Ledger
            /\ m.res = "AccountNotFound"
            /\ m.st = Ledger
            /\ m.im = None

\* A transfer or a mint has returned AccountNotFound after an earlier operation
\* had changed the ledger.
C7_Witness ==
    /\ last.res = "AccountNotFound"
    /\ last.op \in {"safe_transfer_from", "mint"}
    /\ \E k \in Accounts \X Tokens : balances[k] # None

\* C8: a burn fails with OutOfFunds, changing nothing, exactly when the
\* account holds less than the amount (an absent entry holds zero); otherwise
\* it takes the amount from the balance and returns NegativeImbalance(amount).
C8_BurnFailsIffShort ==
    \A account \in Accounts, id \in Tokens, amount \in Balance :
        LET r == burn(Ledger, account, id, amount)
        IN  IF balance_of(Ledger, account, id) < amount
            THEN /\ r.res = "OutOfFunds"
                 /\ r.st = Ledger
            ELSE /\ r.res = "Ok"
                 /\ r.im = Some(NegativeImbalance(amount, id))
                 /\ balance_of(r.st, account, id) =
                        balance_of(Ledger, account, id) - amount

\* mint(acct, t, v), the drop of its imbalance, burn(acct, t, v) and the drop
\* of its imbalance, from the ledger of the variables.
RoundTrip(acct, t, v) ==
    LET m == mint(Ledger, acct, t, v)
        s1 == drop(m.st, unwrap(m.im))
        b == burn(s1, acct, t, v)
    IN  IF b.res = "Ok" THEN drop(b.st, unwrap(b.im)) ELSE b.st

\* C9 as stated: the round trip restores the balance and the issuance from
\* every ledger, those where the mint saturates included.
C9_RoundTripAlways ==
    \A acct \in Accounts \ {DefaultAccount}, t \in Tokens, v \in Balance :
        LET s == RoundTrip(acct, t, v)
        IN  /\ balance_of(s, acct, t) = balance_of(Ledger, acct, t)
            /\ total_issuance(s, t) = total_issuance(Ledger, t)

\* C9, amended: the round trip, each imbalance dropped before the next
\* operation, restores the balance and the issuance when the mint saturates
\* neither of them.
C9_RoundTripUnsaturated ==
    \A acct \in Accounts \ {DefaultAccount}, t \in Tokens, v \in Balance :
        (/\ balance_of(Ledger, acct, t) + v <= MaxBalance
         /\ total_issuance(Ledger, t) + v <= MaxBalance)
        => LET s == RoundTrip(acct, t, v)
           IN  /\ balance_of(s, acct, t) = balance_of(Ledger, acct, t)
               /\ total_issuance(s, t) = total_issuance(Ledger, t)
               /\ OtherBalancesKept(s, {<<acct, t>>})

\* From genesis, two operations were called and both returned an imbalance
\* that is dropped by now; no transfer took place, one account has an entry of
\* zero and the issuance of its token is zero: a mint of a positive amount,
\* a burn of the same amount, and both drops.
C9_Witness ==
    /\ last.op = "drop"
    /\ steps = 2
    /\ pending = <<>>
    /\ events = <<>>
    /\ \E a \in Accounts, t \in Tokens :
           /\ balances[<<a, t>>] = Some(0)
           /\ issuance[t] = Some(0)
           /\ \A k \in (Accounts \X Tokens) \ {<<a, t>>} : balances[k] = None

\* A single operation called on its own, the imbalance it returns dropped at
\* once: the ledger it leaves.
Single(r) == IF r.res = "Ok" /\ r.im # None THEN drop(r.st, unwrap(r.im)) ELSE r.st

\* The single operation a batch operation of a kind stands for, called with
\* the pair v.
SingleCall(kind, st, account, to, v) ==
    CASE kind = "transfer" -> safe_transfer_from(st, account, to, v[1], v[2])
      [] kind = "mint" -> mint(st, account, v[1], v[2])
      [] kind = "burn" -> burn(st, account, v[1], v[2])

\* The pairs of a list called one by one, each on the ledger the one before
\* it left, whether it failed or not: element i is the result of pair i and
\* the ledger after it.
RECURSIVE OneByOne(_, _, _, _, _)
OneByOne(kind, st, account, to, items) ==
    IF items = <<>> THEN <<>>
    ELSE LET r == SingleCall(kind, st, account, to, Head(items))
             after == Single(r)
         IN  <<[st |-> after, res |-> r.res]>>
                 \o OneByOne(kind, after, account, to, Tail(items))

\* r is what a best-effort loop returns on the ledger st: with k the first
\* pair that fails on its own, the error of pair k and the ledger after the
\* k - 1 pairs before it; Ok and the ledger after all the pairs when none
\* fails.
BestEffortPrefix(r, st, f) ==
    LET Before(i) == IF i = 1 THEN st ELSE f[i - 1].st
        failed == {i \in 1..Len(f) : f[i].res # "Ok"}
    IN  /\ r.im = None
        /\ IF failed = {}
           THEN /\ r.res = "Ok"
                /\ r.st = Before(Len(f) + 1)
           ELSE LET k == CHOOSE i \in failed : \A j \in failed : i <= j
                IN  /\ r.res = f[k].res
                    /\ r.st = Before(k)

\* C10: a batch operation applies the single operation to the pairs in input
\* order and stops at the first pair that fails, returning its error; the
\* pairs before it stay applied as if each had been called on its own, and no
\* pair at or after it has any effect.
C10_BatchBestEffortPrefix ==
    BatchLast =>
        \A items \in BatchInputs, account \in Accounts :
            /\ \A to \in Accounts :
                   BestEffortPrefix(
                       safe_batch_transfer_from(Ledger, account, to, items),
                       Ledger, OneByOne("transfer", Ledger, account, to, items))
            /\ BestEffortPrefix(
                   mint_batch(Ledger, account, items),
                   Ledger, OneByOne("mint", Ledger, account, account, items))
            /\ BestEffortPrefix(
                   burn_batch(Ledger, account, items),
                   Ledger, OneByOne("burn", Ledger, account, account, items))

\* A burn_batch has failed with OutOfFunds after it had burnt: the account
\* holds less than the one mint before the batch gave it, and more than
\* nothing.
C10_Witness ==
    /\ last.op = "burn_batch"
    /\ last.res = "OutOfFunds"
    /\ steps = 2
    /\ Len(pending) = 1
    /\ pending[1].pol = "Positive"
    /\ \E a \in Accounts :
           /\ balance_of(Ledger, a, pending[1].token) > 0
           /\ balance_of(Ledger, a, pending[1].token) < pending[1].amount

\* The operation changed some balance entry and appended the one event e, or
\* changed no balance entry and appended nothing.
OneEventPerChange(r, e) ==
    IF r.st.balances # balances
    THEN r.res = "Ok" /\ r.st.events = Append(events, e)
    ELSE r.st.events = events

\* C11: every successful operation that changes a balance entry appends
\* exactly one TransferSingle(from, to, token, amount), with from = None for a
\* mint and to = None for a burn, and an operation that changes no balance
\* appends nothing.
C11_EventOnBalanceChange ==
    \A account \in Accounts, id \in Tokens, amount \in Balance :
        /\ OneEventPerChange(mint(Ledger, account, id, amount),
                             TransferSingle(None, Some(account), id, amount))
        /\ OneEventPerChange(burn(Ledger, account, id, amount),
                             TransferSingle(Some(account), None, id, amount))
        /\ \A to \in Accounts :
               OneEventPerChange(safe_transfer_from(Ledger, account, to, id, amount),
                                 TransferSingle(Some(account), Some(to), id, amount))

\* What an imbalance adds to the issuance of its token when it is dropped
\* without saturation.
Signed(im) == IF im.pol = "Positive" THEN im.amount ELSE 0 - im.amount

RECURSIVE SumSigned(_, _)
SumSigned(held, t) ==
    IF held = <<>> THEN 0
    ELSE (IF Head(held).token = t THEN Signed(Head(held)) ELSE 0)
         + SumSigned(Tail(held), t)

\* The issuance of t once every imbalance in held is dropped without
\* saturation.
Owed(st, held, t) == total_issuance(st, t) + SumSigned(held, t)

\* The call took the imbalances in taken and returned r: what r hands back
\* stands for the same amount, and the issuance was not touched.
Carries(r, taken) ==
    \A t \in Tokens :
        /\ total_issuance(r.st, t) = total_issuance(Ledger, t)
        /\ Owed(r.st, r.im, t) = Owed(Ledger, taken, t)

\* Dropping im saturates the issuance of its token.
DropSaturates(st, im) ==
    LET v == total_issuance(st, im.token) + Signed(im)
    IN  v < 0 \/ v > MaxBalance

\* C12: every imbalance is applied to the issuance exactly once.  Each of
\* split, merge, subsume, offset and drop_zero leaves the issuance of every
\* token as it was and hands back imbalances that stand for the same net
\* amount as the ones it consumed (for merge and subsume, when the sum does
\* not saturate), and dropping an imbalance changes the issuance of its token
\* by its signed amount, when that does not saturate, and no other issuance.
\* Hence, after any sequence of them and the drop of every survivor, the
\* issuance has changed by the surplus amounts less the deficit amounts.
C12_AppliedExactlyOnce ==
    \A i \in 1..Len(pending) :
        LET im == pending[i]
        IN  /\ \A amount \in Balance :
                   Carries(split(Ledger, im, amount), <<im>>)
            /\ Carries(drop_zero(Ledger, im), <<im>>)
            /\ ~DropSaturates(Ledger, im)
               => \A t \in Tokens :
                      Owed(drop(Ledger, im), <<>>, t) = Owed(Ledger, <<im>>, t)
            /\ \A j \in 1..Len(pending) :
                   LET other == pending[j]
                   IN  /\ (SamePolarity(i, j) /\ im.amount + other.amount <= MaxBalance)
                          => /\ Carries(merge(Ledger, im, other), <<im, other>>)
                             /\ Carries(subsume(Ledger, im, other), <<im, other>>)
                       /\ OppositePolarity(i, j)
                          => Carries(offset(Ledger, im, other), <<im, other>>)

\* A surplus of 2 and a deficit of 1 of the initial token were offset, and
\* the caller holds the surplus of 1 that is left.
C12_Witness ==
    /\ last = [op |-> "offset", res |-> "Same"]
    /\ pending = <<PositiveImbalance(1, initial_token)>>
    /\ steps = 2

\* The imbalance that merge or subsume hands back.
Merged(r) == r.im[1]

\* C13: split(I, k) returns parts of the polarity and token of I with the
\* amounts min(k, I.amount) and I.amount - min(k, I.amount), and the merge of
\* the two parts is an imbalance of that polarity whose peek is I.amount; it
\* holds for every imbalance a caller holds and every k.
C13_SplitMergeIdentity ==
    \A i \in 1..Len(pending), k \in Balance :
        LET I == pending[i]
            parts == split(Ledger, I, k).im
            whole == Merged(merge(Ledger, parts[1], parts[2]))
        IN  /\ Len(parts) = 2
            /\ peek(parts[1]) = Min(k, I.amount)
            /\ peek(parts[2]) = I.amount - Min(k, I.amount)
            /\ \A n \in 1..2 : parts[n].pol = I.pol /\ parts[n].token = I.token
            /\ peek(whole) = I.amount
            /\ whole = I

\* An imbalance of the greatest amount was split in two parts of a positive
\* amount, which the caller holds.
C13_Witness ==
    /\ last.op = "split"
    /\ Len(pending) = 2
    /\ pending[1].amount > 0
    /\ pending[2].amount > 0
    /\ pending[1].amount + pending[2].amount = MaxBalance

\* The ledger after the imbalances in held are dropped one after the other.
RECURSIVE DropAll(_, _)
DropAll(st, held) ==
    IF held = <<>> THEN st ELSE DropAll(drop(st, Head(held)), Tail(held))

\* Dropping the imbalances in held one after the other saturates at no step.
RECURSIVE NoneSaturates(_, _)
NoneSaturates(st, held) ==
    \/ held = <<>>
    \/ /\ ~DropSaturates(st, Head(held))
       /\ NoneSaturates(drop(st, Head(held)), Tail(held))

\* C14: for two imbalances of opposite polarity with amounts a and b, offset
\* yields Same with the polarity of the first and a - b if a > b, Other with
\* the polarity of the second and b - a if b > a, and None if a = b; dropping
\* what it yields leaves the issuance that dropping the two imbalances one
\* after the other leaves, when none of these drops saturates.
C14_OffsetCorrect ==
    \A i \in 1..Len(pending), j \in 1..Len(pending) :
        OppositePolarity(i, j)
        => LET x == pending[i]
               y == pending[j]
               a == x.amount
               b == y.amount
               r == offset(Ledger, x, y)
           IN  /\ a > b => r = Same(Ledger, [x EXCEPT !.amount = a - b])
               /\ b > a => r = Other(Ledger, [y EXCEPT !.amount = b - a])
               /\ a = b => r = SameOrOtherNone(Ledger)
               /\ (NoneSaturates(Ledger, <<x, y>>) /\ NoneSaturates(r.st, r.im))
                  => total_issuance(DropAll(r.st, r.im), x.token)
                     = total_issuance(DropAll(Ledger, <<x, y>>), x.token)

\* A deficit of 2 was offset with a surplus of 1 of the initial token, and
\* the caller holds the deficit of 1 that is left: the answer was Other when
\* the surplus was the first operand and Same when the deficit was.
C14_Witness ==
    /\ last.op = "offset"
    /\ last.res \in {"Same", "Other"}
    /\ pending = <<NegativeImbalance(1, initial_token)>>

\* C15: slash(who, value) lowers the balance of who by
\* slashed = min(balance, value), returns NegativeImbalance(slashed) and
\* reports remaining = value - slashed, for every balance and value.
C15_SlashRemaining ==
    \A token \in Tokens, who \in Accounts, value \in Balance :
        LET bal == balance_of(Ledger, who, token)
            slashed == Min(bal, value)
            r == slash(Ledger, token, who, value)
        IN  /\ balance_of(r.st, who, token) = bal - slashed
            /\ r.im = Some(NegativeImbalance(slashed, token))
            /\ r.remaining = value - slashed
            /\ slashed + r.remaining = value

\* C16: make_free_balance_be(who, value) sets the balance to value and
\* returns a surplus of value - old when the balance went up and a deficit of
\* old - value when it went down, so that after the drop of the imbalance the
\* issuance of the token has changed as the balance has, when the drop does
\* not saturate.
C16_MakeFreeBalanceBe ==
    \A token \in Tokens, who \in Accounts, value \in Balance :
        LET old == balance_of(Ledger, who, token)
            r == make_free_balance_be(Ledger, token, who, value)
            im == r.im[1]
        IN  /\ r.res = "Ok"
            /\ balance_of(r.st, who, token) = value
            /\ value > old => im = PositiveImbalance(value - old, token)
            /\ value < old => im = NegativeImbalance(old - value, token)
            /\ ~DropSaturates(r.st, im)
               => total_issuance(drop(r.st, im), token) - total_issuance(Ledger, token)
                  = value - old

\* C17: transfer(from, to, value) of the view bound to a token returns the
\* result, leaves the ledger and deposits the event of
\* safe_transfer_from(from, to, token, value), for every from, to (the
\* default account included) and value.
C17_TransferDelegates ==
    \A token \in Tokens, from \in Accounts, to \in Accounts, value \in Balance :
        LET c == token_transfer(Ledger, token, from, to, value)
            e == safe_transfer_from(Ledger, from, to, token, value)
        IN  /\ c.res = e.res
            /\ c.st.balances = e.st.balances
            /\ c.st.issuance = e.st.issuance
            /\ c.st.events = e.st.events

\* deposit_creating(who, value) returns Ok and raises the balance of who by
\* value, saturating, and changes nothing else.
DepositCreatingAdds(token, who, value) ==
    LET r == deposit_creating(Ledger, token, who, value)
    IN  /\ r.res = "Ok"
        /\ balance_of(r.st, who, token)
           = saturating_add(balance_of(Ledger, who, token), value)
        /\ OtherBalancesKept(r.st, {<<who, token>>})
        /\ r.st.issuance = issuance
        /\ r.im = Some(PositiveImbalance(value, token))

\* deposit_into_existing(who, value) on an entry that exists returns Ok and
\* raises it by value, saturating, and changes nothing else.
DepositIntoExistingAdds(token, who, value) ==
    LET r == deposit_into_existing(Ledger, token, who, value)
    IN  /\ r.res = "Ok"
        /\ r.st.balances[<<who, token>>]
           = Some(saturating_add(balance_of(Ledger, who, token), value))
        /\ OtherBalancesKept(r.st, {<<who, token>>})
        /\ r.st.issuance = issuance
        /\ r.im = Some(PositiveImbalance(value, token))

\* C18: deposit_into_existing(who, value) fails with AccountNotFound and
\* changes nothing whenever who has no entry for the token, for every value,
\* 0 included, and raises the balance by value when the entry exists;
\* deposit_creating(who, value) always succeeds and raises the balance by
\* value.
C18_DepositNeedsEntryAlways ==
    \A token \in Tokens, who \in Accounts, value \in Balance :
        /\ DepositCreatingAdds(token, who, value)
        /\ IF balances[<<who, token>>] = None
           THEN LET r == deposit_into_existing(Ledger, token, who, value)
                IN  r.res = "AccountNotFound" /\ r.st = Ledger /\ r.im = None
           ELSE DepositIntoExistingAdds(token, who, value)

\* C18, amended: deposit_into_existing(who, value) with a value above 0
\* fails with AccountNotFound and changes nothing when who has no entry for
\* the token, and raises the entry by value, saturating, when it exists; with
\* a value of 0 it returns Ok with a zero surplus and changes nothing, entry
\* or not.  deposit_creating(who, value) always succeeds and raises the
\* balance by value, saturating; it writes the entry, creating it if absent,
\* when the value is above 0 and writes nothing when it is 0.
C18_DepositNeedsEntryForValue ==
    \A token \in Tokens, who \in Accounts, value \in Balance :
        LET r == deposit_into_existing(Ledger, token, who, value)
            c == deposit_creating(Ledger, token, who, value)
        IN  /\ DepositCreatingAdds(token, who, value)
            /\ value > 0 => c.st.balances[<<who, token>>] # None
            /\ value = 0 => c.st = Ledger
            /\ value = 0
               => r = Ok(Ledger, Some(PositiveImbalance(0, token)))
            /\ (value > 0 /\ balances[<<who, token>>] = None)
               => r.res = "AccountNotFound" /\ r.st = Ledger /\ r.im = None
            /\ (value > 0 /\ balances[<<who, token>>] # None)
               => DepositIntoExistingAdds(token, who, value)

\* A deposit into an entry that does not exist was refused, and a deposit
\* of 0 into such an entry would return Ok: some account has an entry and
\* another has none.
C18_Witness ==
    /\ last = [op |-> "deposit_into_existing", res |-> "AccountNotFound"]
    /\ \E who \in Accounts, token \in Tokens :
           /\ balances[<<who, token>>] = None
           /\ deposit_into_existing(Ledger, token, who, 0).res = "Ok"
    /\ \E who \in Accounts, token \in Tokens : balances[<<who, token>>] # None

\* C19: over any sequence of create_token calls LastTokenId strictly
\* increases at every call and no two calls return the same id; stated for
\* two calls in a row from every reachable state.
C19_TokenIdsUnique ==
    \A a1 \in Accounts, a2 \in Accounts, s1 \in Balance, s2 \in Balance :
        LET r1 == create_token(Ledger, a1, s1)
            r2 == create_token(r1.st, a2, s2)
        IN  /\ last_token(r1.st) > last_token(Ledger)
            /\ last_token(r2.st) > last_token(r1.st)
            /\ r1.token # r2.token

\* C20: burn(amount) of the view bound to a token lowers the issuance of the
\* token by min(amount, issuance), never below zero, issue(amount) raises it
\* by amount clamped at the greatest Balance, and neither changes a balance
\* entry, the issuance of another token or LastTokenId.
C20_BurnIssueFrame ==
    \A token \in Tokens, amount \in Balance :
        LET sup == total_issuance(Ledger, token)
            b == token_burn(Ledger, token, amount)
            i == token_issue(Ledger, token, amount)
        IN  /\ total_issuance(b.st, token) = sup - Min(amount, sup)
            /\ total_issuance(b.st, token) >= 0
            /\ total_issuance(i.st, token) = Min(sup + amount, MaxBalance)
            /\ \A r \in {b, i} :
                   /\ r.res = "Ok"
                   /\ r.st.balances = balances
                   /\ \A t \in Tokens \ {token} : r.st.issuance[t] = issuance[t]
                   /\ r.st.lastTokenId = lastTokenId

\* An account holds a balance whose mint was dropped into the issuance, and
\* a burn of more than that issuance took place: the issuance is an entry of
\* zero and the caller holds nothing but the surplus the burn returned, of
\* the greatest amount.
C20_Witness ==
    /\ last.op = "token_burn"
    /\ \E t \in Tokens :
           /\ issuance[t] = Some(0)
           /\ pending = <<PositiveImbalance(MaxBalance, t)>>
           /\ \E a \in Accounts :
                  /\ balance_of(Ledger, a, t) > 0
                  /\ balance_of(Ledger, a, t) < MaxBalance

\* C21: can_slash(who, value) of the view bound to a token answers true if
\* and only if value >= the balance of who for the token, an absent entry
\* counting as zero, and leaves the ledger as it was.
C21_CanSlash ==
    \A token \in Tokens, who \in Accounts, value \in Balance :
        LET r == can_slash(Ledger, token, who, value)
        IN  /\ r.res = (value >= balance_of(Ledger, who, token))
            /\ r.st = Ledger

\* can_slash answered false: some account holds a positive balance, above
\* the value asked about, and the call left the balance and the events
\* alone.
C21_Witness ==
    /\ last = [op |-> "can_slash", res |-> "false"]
    /\ \E who \in Accounts, token \in Tokens : balance_of(Ledger, who, token) > 0
    /\ events = <<>>

\* The call returned r with one imbalance: the imbalance holds the amount by
\* which the issuance of the token was changed, and its drop brings the
\* issuance back to what it was before the call.
CarriesTheChange(r, token) ==
    LET im == r.im[1]
        before == total_issuance(Ledger, token)
        after == total_issuance(r.st, token)
    IN  /\ im.amount = (IF after > before THEN after - before ELSE before - after)
        /\ total_issuance(drop(r.st, im), token) = before

\* C22: the imbalance returned by burn(amount) and issue(amount) of the view
\* bound to a token holds the amount by which the issuance was changed, the
\* clamped one, so that the call followed by the drop of the imbalance
\* leaves the issuance of the token as it was, for every amount.
C22_BurnIssueRoundTrip ==
    \A token \in Tokens, amount \in Balance :
        /\ CarriesTheChange(token_burn(Ledger, token, amount), token)
        /\ CarriesTheChange(token_issue(Ledger, token, amount), token)

\* C23: in every reachable state, mints to any token id among them, after
\* create_token(account, initial_supply) returns the id t the issuance of t
\* is the sum of the balances of t, and no balance or issuance entry of
\* another token is changed.
C23_CreateTokenConserves ==
    \A account \in Accounts, initial_supply \in Balance :
        LET r == create_token(Ledger, account, initial_supply)
            t == r.token
        IN  /\ total_issuance(r.st, t) = SumBalances(r.st, Accounts, t)
            /\ \A u \in Tokens \ {t} :
                   /\ r.st.issuance[u] = issuance[u]
                   /\ \A a \in Accounts :
                          r.st.balances[<<a, u>>] = balances[<<a, u>>]

====
